---- MODULE Spec2Model ----
(***************************************************************************)
(* State-machine model of src/task_manager.py (TaskManagerApp, TimeBlock,  *)
(* GPTScheduler): the foreground handlers of the Tk application, the       *)
(* background reminder thread, and the pure functions they call.           *)
(*                                                                         *)
(* Strings that the program parses or compares (HH:MM times) are modelled  *)
(* as sequences of character codes, so that strptime, int(), str.split and *)
(* lexicographic comparison are computed as Python computes them.          *)
(* Instants are whole seconds since a Monday 00:00:00 (naive local time,   *)
(* as datetime.now() returns it).                                          *)
(***************************************************************************)
EXTENDS Integers, Sequences, FiniteSets, TLC

VARIABLES
    tasks,            \* self.tasks: sequence of Task records
    goals,            \* self.goals: sequence of Goal records
    busy_slots,       \* self.busy_slots: weekday -> sequence of <<hour, duration>>
    generated_blocks, \* self.generated_blocks: sequence of TimeBlock records
    reminder_thread,  \* self.reminder_thread: 0 (None) or the id of the last thread created
    stop_event,       \* self.stop_event: TRUE when set
    start_enabled,    \* state of start_reminders_button ("normal" = TRUE)
    available,        \* self.gpt.client is not None
    destroyed,        \* the Tk root has been destroyed (on_close)
    threads,          \* every Thread object created so far: id -> its frame
    clock,            \* datetime.now()
    afterQueue,       \* callbacks registered with self.after(0, ...), not yet run
    popups,           \* reminders presented so far: <<executing context, block>>
    fired,            \* every self.after(0, self._show_reminder, block) made: <<thread, block>>
    event,            \* the last step taken: <<operation, dialog title>>
    schedule,         \* raw response handed to _parse_schedule (parser specification)
    parsed,           \* what _parse_schedule returned for it
    args,             \* arguments of the function applied (specifications of one function)
    result            \* what it returned, or the name of the exception it raised

vars == <<tasks, goals, busy_slots, generated_blocks, reminder_thread, stop_event,
          start_enabled, available, destroyed, threads, clock, afterQueue, popups,
          fired, event, schedule, parsed, args, result>>

----------------------------------------------------------------------------
(* Program constants *)

WEEKDAYS == <<"Monday", "Tuesday", "Wednesday", "Thursday", "Friday", "Saturday", "Sunday">>

MINUTE == 60
HOUR == 3600
DAY == 86400
WEEK == 604800
\* time.sleep(30)
PollInterval == 30
\* timedelta(minutes=1), in seconds
FireWindow == 60

(* Bounds of the model *)
\* longest entry list of one weekday in a parsed response
MaxEntries == 3
MaxThreads == 2
MaxTasks == 1
MaxGoals == 1
\* number of 30-second steps the clock may take past its initial value
MaxClockSteps == 3

----------------------------------------------------------------------------
(* Characters: the digits are their own codes and ':' follows them, as in  *)
(* ASCII ('0'..'9' < ':').                                                 *)

Colon == 10

IsDigit(c) == c \in 0..9

AllDigits(s) == \A i \in 1..Len(s) : IsDigit(s[i])

RECURSIVE DigitsValue(_)
DigitsValue(s) ==
    IF Len(s) = 0 THEN 0
    ELSE 10 * DigitsValue(SubSeq(s, 1, Len(s) - 1)) + s[Len(s)]

\* str.split(":"): the pieces between the colons
RECURSIVE Split(_)
Split(s) ==
    IF \A i \in 1..Len(s) : s[i] # Colon THEN <<s>>
    ELSE LET k == CHOOSE i \in 1..Len(s) :
                      s[i] = Colon /\ \A j \in 1..(i - 1) : s[j] # Colon
         IN <<SubSeq(s, 1, k - 1)>> \o Split(SubSeq(s, k + 1, Len(s)))

\* Python's < on str: lexicographic by code point, a proper prefix is smaller
RECURSIVE StrLess(_, _)
StrLess(a, b) ==
    IF Len(b) = 0 THEN FALSE
    ELSE IF Len(a) = 0 THEN TRUE
    ELSE IF a[1] # b[1] THEN a[1] < b[1]
    ELSE StrLess(Tail(a), Tail(b))

\* datetime.strptime(s, "%H:%M") succeeds: %H is 2[0-3]|[0-1]\d|\d and
\* %M is [0-5]\d|\d, and no data may remain
StrptimeOK(s) ==
    LET p == Split(s)
    IN /\ Len(p) = 2
       /\ Len(p[1]) \in 1..2 /\ AllDigits(p[1]) /\ DigitsValue(p[1]) <= 23
       /\ Len(p[2]) \in 1..2 /\ AllDigits(p[2]) /\ DigitsValue(p[2]) <= 59

\* the time of day strptime returns, in minutes
StrptimeMinutes(s) ==
    LET p == Split(s) IN 60 * DigitsValue(p[1]) + DigitsValue(p[2])

\* f"{n:02d}:00"
FormatHour(n) ==
    IF n < 10 THEN <<0, n, Colon, 0, 0>>
    ELSE IF n < 100 THEN <<n \div 10, n % 10, Colon, 0, 0>>
    ELSE <<n \div 100, (n \div 10) % 10, n % 10, Colon, 0, 0>>

WeekdayIndex(day) == (CHOOSE i \in 1..7 : WEEKDAYS[i] = day) - 1

IsWeekday(day) == \E i \in 1..7 : WEEKDAYS[i] = day

----------------------------------------------------------------------------
(* TimeBlock *)

TimeBlock(title, day, start_time, end_time, details) ==
    [title |-> title, day |-> day, start_time |-> start_time,
     end_time |-> end_time, details |-> details]

\* TimeBlock.overlaps raises ValueError: the days are equal and one of the
\* four strptime calls fails
OverlapsRaises(self, other) ==
    /\ self.day = other.day
    /\ ~ (/\ StrptimeOK(self.start_time) /\ StrptimeOK(self.end_time)
          /\ StrptimeOK(other.start_time) /\ StrptimeOK(other.end_time))

\* variant: <= in place of <, so that touching intervals overlap
overlapsInclusive(self, other) ==
    IF self.day # other.day THEN FALSE
    ELSE LET start_a == StrptimeMinutes(self.start_time)
             end_a == StrptimeMinutes(self.end_time)
             start_b == StrptimeMinutes(other.start_time)
             end_b == StrptimeMinutes(other.end_time)
         IN start_a <= end_b /\ start_b <= end_a

overlaps(self, other) ==
    IF self.day # other.day THEN FALSE
    ELSE LET start_a == StrptimeMinutes(self.start_time)
             end_a == StrptimeMinutes(self.end_time)
             start_b == StrptimeMinutes(other.start_time)
             end_b == StrptimeMinutes(other.end_time)
         IN start_a < end_b /\ start_b < end_a

----------------------------------------------------------------------------
(* Busy-time snapshot and conflict detection *)

RECURSIVE BusyDicts(_)
BusyDicts(slots) ==
    IF Len(slots) = 0 THEN <<>>
    ELSE LET hour == slots[1][1]
             duration == slots[1][2]
             end_hour == hour + duration
         IN <<[start |-> FormatHour(hour), end |-> FormatHour(end_hour), title |-> "Busy"]>>
            \o BusyDicts(Tail(slots))

_build_busy_context(busy) ==
    [day \in {WEEKDAYS[i] : i \in 1..7} |-> BusyDicts(busy[day])]

RECURSIVE BusyBlocksFrom(_, _)
BusyBlocksFrom(ctx, i) ==
    IF i > 7 THEN <<>>
    ELSE [k \in 1..Len(ctx[WEEKDAYS[i]]) |->
              TimeBlock("Busy", WEEKDAYS[i], ctx[WEEKDAYS[i]][k].start,
                        ctx[WEEKDAYS[i]][k].end, "")]
         \o BusyBlocksFrom(ctx, i + 1)

\* the list comprehension of _find_conflicts
BusyBlocks(busy) == BusyBlocksFrom(_build_busy_context(busy), 1)

\* _find_conflicts raises: some overlaps call it makes raises
FindConflictsRaises(blocks, busy) ==
    LET busy_blocks == BusyBlocks(busy)
    IN \E i \in 1..Len(blocks), j \in 1..Len(busy_blocks) :
           OverlapsRaises(blocks[i], busy_blocks[j])

ConflictMessage(block) ==
    [title |-> block.title, day |-> block.day,
     start_time |-> block.start_time, end_time |-> block.end_time]

\* variant: one message for a block however many busy blocks it overlaps
MessagesForOnce(block, busy_blocks) ==
    IF \E j \in 1..Len(busy_blocks) : overlaps(block, busy_blocks[j])
    THEN <<ConflictMessage(block)>> ELSE <<>>

RECURSIVE MessagesFor(_, _)
MessagesFor(block, busy_blocks) ==
    IF Len(busy_blocks) = 0 THEN <<>>
    ELSE (IF overlaps(block, busy_blocks[1]) THEN <<ConflictMessage(block)>> ELSE <<>>)
         \o MessagesFor(block, Tail(busy_blocks))

RECURSIVE ConflictsOf(_, _)
ConflictsOf(blocks, busy_blocks) ==
    IF Len(blocks) = 0 THEN <<>>
    ELSE MessagesFor(blocks[1], busy_blocks) \o ConflictsOf(Tail(blocks), busy_blocks)

_find_conflicts(blocks, busy) == ConflictsOf(blocks, BusyBlocks(busy))

----------------------------------------------------------------------------
(* Schedule parser *)

\* schedule.get("days", {}) as the sequence of its (key, entries) items
DaysOf(sched) == IF "days" \in DOMAIN sched THEN sched.days ELSE <<>>

\* variant: entry["details"] in place of entry.get("details", "")
HasAllKeys(entry) == {"title", "start", "end", "details"} \subseteq DOMAIN entry

\* the try block: KeyError when title, start or end is missing
HasRequiredKeys(entry) == {"title", "start", "end"} \subseteq DOMAIN entry

EntryBlock(day, entry) ==
    TimeBlock(entry.title, day, entry.start, entry.end,
              IF "details" \in DOMAIN entry THEN entry.details ELSE "")

RECURSIVE EntriesBlocks(_, _)
EntriesBlocks(day, entries) ==
    IF Len(entries) = 0 THEN <<>>
    ELSE (IF HasRequiredKeys(entries[1]) THEN <<EntryBlock(day, entries[1])>> ELSE <<>>)
         \o EntriesBlocks(day, Tail(entries))

RECURSIVE DaysBlocks(_)
DaysBlocks(days) ==
    IF Len(days) = 0 THEN <<>>
    ELSE (IF IsWeekday(days[1][1]) THEN EntriesBlocks(days[1][1], days[1][2]) ELSE <<>>)
         \o DaysBlocks(Tail(days))

\* the sort key (WEEKDAYS.index(b.day), b.start_time), compared as tuples
KeyLess(a, b) ==
    \/ WeekdayIndex(a.day) < WeekdayIndex(b.day)
    \/ /\ WeekdayIndex(a.day) = WeekdayIndex(b.day)
       /\ StrLess(a.start_time, b.start_time)

\* x goes before the first element that is greater: equal keys keep their order
InsertSorted(x, s) ==
    LET before == {i \in 1..Len(s) : KeyLess(x, s[i])}
        k == IF before = {} THEN Len(s) + 1
             ELSE CHOOSE i \in before : \A j \in before : i <= j
    IN SubSeq(s, 1, k - 1) \o <<x>> \o SubSeq(s, k, Len(s))

\* sorted(blocks, key=...): stable
RECURSIVE SortBlocks(_)
SortBlocks(blocks) ==
    IF Len(blocks) = 0 THEN <<>>
    ELSE InsertSorted(blocks[Len(blocks)], SortBlocks(SubSeq(blocks, 1, Len(blocks) - 1)))

_parse_schedule(sched) == SortBlocks(DaysBlocks(DaysOf(sched)))

----------------------------------------------------------------------------
(* Fire times (lines 504-515 of _reminder_loop) *)

\* now.weekday(): 0 is Monday
Weekday(now) == (now \div DAY) % 7

\* map(int, block.start_time.split(":")) unpacked into two names, then
\* datetime.replace(hour=, minute=): the cases that raise ValueError
StartTimeRaises(block) ==
    LET p == Split(block.start_time)
    IN \/ Len(p) # 2
       \/ Len(p[1]) = 0 \/ ~AllDigits(p[1])
       \/ Len(p[2]) = 0 \/ ~AllDigits(p[2])
       \/ DigitsValue(p[1]) > 23
       \/ DigitsValue(p[2]) > 59

\* variant: <= in place of <
IsPastOrNow(block_dt, now) == block_dt <= now

\* block_dt < now, the test that moves a fire time to next week
IsPast(block_dt, now) == block_dt < now

\* variant: timedelta(days=1) in place of timedelta(weeks=1)
NextOccurrenceDay(block_dt) == block_dt + DAY

\* block_dt += timedelta(weeks=1)
NextOccurrence(block_dt) == block_dt + WEEK

FireTime(now, block) ==
    LET monday == now - Weekday(now) * DAY
        day_index == WeekdayIndex(block.day)
        block_date == monday + day_index * DAY
        p == Split(block.start_time)
        start_hour == DigitsValue(p[1])
        start_minute == DigitsValue(p[2])
        block_dt == (block_date - (block_date % DAY)) + start_hour * HOUR + start_minute * MINUTE
    IN IF IsPast(block_dt, now) THEN NextOccurrence(block_dt) ELSE block_dt

\* blocks_by_datetime
BlocksByDatetime(now, blocks) ==
    [i \in 1..Len(blocks) |-> <<FireTime(now, blocks[i]), blocks[i]>>]

SetupRaises(blocks) == \E i \in 1..Len(blocks) : StartTimeRaises(blocks[i])

\* identifier = (block.day, block.start_time, block.title)
Identifier(block) == <<block.day, block.start_time, block.title>>

\* block_dt <= current < block_dt + timedelta(minutes=1)
InWindow(block_dt, current) == block_dt <= current /\ current < block_dt + FireWindow

\* variant: the shown set is never consulted
NotShownIgnored(identifier, shown) == TRUE

\* variant: identifier = (block.day, block.start_time), without the title
NotShownSameStart(identifier, shown) ==
    \A other \in shown : <<other[1], other[2]>> # <<identifier[1], identifier[2]>>

\* identifier not in shown
NotShown(identifier, shown) == identifier \notin shown

----------------------------------------------------------------------------
(* Threads *)

ThreadIds == 1..MaxThreads

\* atCall records self.generated_blocks as it was when start_reminders ran
NoThread ==
    [pc |-> "none", now |-> 0, atCall |-> <<>>, entries |-> <<>>, shown |-> {},
     current |-> 0, idx |-> 0, wakeAt |-> 0]

\* Thread.is_alive(): started and run() not finished
is_alive(th) == th.pc \in {"start", "check", "scan", "sleep"}

\* variant: the liveness test of line 493 left out
AlreadyRunningUnchecked == FALSE

\* self.reminder_thread and self.reminder_thread.is_alive()
AlreadyRunning == reminder_thread # 0 /\ is_alive(threads[reminder_thread])

----------------------------------------------------------------------------
(* Form input: str.strip() and float() on the strings the forms can hold *)

Strip(s) ==
    CASE s = " " -> ""
      [] s = " Write " -> "Write"
      [] OTHER -> s

\* float(s) does not raise ValueError
FloatOK(s) == s \in {"2", "1.5", "0", "-1", "nan", "inf"}

\* float(s), in tenths of an hour where it is a number
FloatValue(s) ==
    CASE s = "2" -> 20
      [] s = "1.5" -> 15
      [] s = "0" -> 0
      [] s = "-1" -> -10
      [] OTHER -> s

Task(name, duration_hours, difficulty, notes, goal) ==
    [name |-> name, duration_hours |-> duration_hours, difficulty |-> difficulty,
     notes |-> notes, goal |-> goal]

Goal(name, difficulty, notes) ==
    [name |-> name, difficulty |-> difficulty, notes |-> notes]

\* Optional[str]: None
None == "<None>"

----------------------------------------------------------------------------
(* Foreground handlers.  Each runs to completion on the Tk main loop, which *)
(* stops dispatching once the root window is destroyed.                     *)

Reminders == <<reminder_thread, stop_event, threads, afterQueue, popups, fired>>

\* variant: every click appends a slot
ToggledAdditive(busy_list, hour) == Append(busy_list, <<hour, 1>>)

\* lines 275-280: busy_list after the click on hour
Toggled(busy_list, hour) ==
    IF \E i \in 1..Len(busy_list) : busy_list[i][1] = hour
    THEN SelectSeq(busy_list, LAMBDA sl : sl[1] # hour)
    ELSE Append(busy_list, <<hour, 1>>)

toggle_busy(day, hour) ==
    /\ ~destroyed
    /\ busy_slots' = [busy_slots EXCEPT ![day] = Toggled(busy_slots[day], hour)]
    /\ event' = <<"toggle_busy", "">>
    /\ UNCHANGED <<tasks, goals, generated_blocks, start_enabled, available, destroyed,
                   clock, schedule, parsed, args, result>>
    /\ UNCHANGED Reminders

add_task(name_var, duration_var, difficulty, goal_var, notes_var) ==
    /\ ~destroyed
    /\ LET name == Strip(name_var)
           duration_str == Strip(duration_var)
           goal_name == Strip(goal_var)
           notes == Strip(notes_var)
       IN IF name = "" \/ duration_str = ""
          THEN /\ event' = <<"add_task", "Missing information">>
               /\ UNCHANGED tasks
          ELSE IF ~FloatOK(duration_str)
          THEN /\ event' = <<"add_task", "Invalid duration">>
               /\ UNCHANGED tasks
          ELSE /\ Len(tasks) < MaxTasks
               /\ tasks' = Append(tasks,
                      Task(name, FloatValue(duration_str), difficulty, notes,
                           IF goal_name # "" /\ goal_name # "None" THEN goal_name ELSE None))
               /\ event' = <<"add_task", "">>
    /\ UNCHANGED <<goals, busy_slots, generated_blocks, start_enabled, available,
                   destroyed, clock, schedule, parsed, args, result>>
    /\ UNCHANGED Reminders

add_goal(name_var, difficulty, notes_var) ==
    /\ ~destroyed
    /\ LET name == Strip(name_var)
           notes == Strip(notes_var)
       IN IF name = ""
          THEN /\ event' = <<"add_goal", "Missing information">>
               /\ UNCHANGED goals
          ELSE /\ Len(goals) < MaxGoals
               /\ goals' = Append(goals, Goal(name, difficulty, notes))
               /\ event' = <<"add_goal", "">>
    /\ UNCHANGED <<tasks, busy_slots, generated_blocks, start_enabled, available,
                   destroyed, clock, schedule, parsed, args, result>>
    /\ UNCHANGED Reminders

\* GPTScheduler.generate_schedule raises: no client, or the request, the
\* response indexing or json.loads fails
ClientRaises(reply) == ~available \/ reply.raises

\* variant: the old schedule is discarded before the request is made
AbortGenerationClearing(dialog) ==
    /\ event' = <<"generate_schedule", dialog>>
    /\ generated_blocks' = <<>>
    /\ UNCHANGED start_enabled

\* the handler shows a dialog and returns before line 348
AbortGeneration(dialog) ==
    /\ event' = <<"generate_schedule", dialog>>
    /\ UNCHANGED <<generated_blocks, start_enabled>>

\* reply: what the scheduling service does with this request
generate_schedule(reply) ==
    /\ ~destroyed
    /\ IF Len(tasks) = 0
       THEN AbortGeneration("No tasks")
       ELSE IF ~available
       THEN AbortGeneration("OpenAI unavailable")
       ELSE IF ClientRaises(reply)
       THEN AbortGeneration("Scheduling failed")
       ELSE LET blocks == _parse_schedule(reply.schedule)
            IN IF FindConflictsRaises(blocks, busy_slots)
               THEN \* ValueError leaves the handler before line 354
                    /\ event' = <<"generate_schedule", "ValueError">>
                    /\ UNCHANGED <<generated_blocks, start_enabled>>
               ELSE /\ generated_blocks' = blocks
                    /\ start_enabled' = TRUE
                    /\ event' = <<"generate_schedule",
                                  IF Len(_find_conflicts(blocks, busy_slots)) > 0
                                  THEN "Conflicts detected" ELSE "">>
    /\ UNCHANGED <<tasks, goals, busy_slots, available, destroyed, clock, schedule, parsed,
                   args, result>>
    /\ UNCHANGED Reminders

\* the Thread object start_reminders creates
NewThread(blocks) == [NoThread EXCEPT !.pc = "start", !.atCall = blocks]

start_reminders ==
    /\ ~destroyed
    /\ start_enabled
    /\ IF Len(generated_blocks) = 0
       THEN /\ event' = <<"start_reminders", "No schedule">>
            /\ UNCHANGED <<reminder_thread, stop_event, threads, start_enabled>>
       ELSE IF AlreadyRunning
       THEN /\ event' = <<"start_reminders", "Reminders running">>
            /\ UNCHANGED <<reminder_thread, stop_event, threads, start_enabled>>
       ELSE /\ \E t \in ThreadIds : threads[t].pc = "none"
            /\ LET t == CHOOSE i \in ThreadIds :
                            /\ threads[i].pc = "none"
                            /\ \A j \in ThreadIds : threads[j].pc = "none" => i <= j
               IN /\ stop_event' = FALSE
                  /\ threads' = [threads EXCEPT ![t] = NewThread(generated_blocks)]
                  /\ reminder_thread' = t
            /\ start_enabled' = FALSE
            /\ event' = <<"start_reminders", "Reminders started">>
    /\ UNCHANGED <<tasks, goals, busy_slots, generated_blocks, available, destroyed,
                   clock, afterQueue, popups, fired, schedule, parsed, args, result>>

\* Tk runs the oldest pending after(0) callback: _show_reminder(block)
_show_reminder ==
    /\ ~destroyed
    /\ Len(afterQueue) > 0
    /\ popups' = Append(popups, <<"foreground", Head(afterQueue)>>)
    /\ afterQueue' = Tail(afterQueue)
    /\ event' = <<"_show_reminder", "">>
    /\ UNCHANGED <<tasks, goals, busy_slots, generated_blocks, reminder_thread, stop_event,
                   start_enabled, available, destroyed, threads, clock, fired, schedule,
                   parsed, args, result>>

\* destroy() deletes the interpreter with its pending callbacks
on_close ==
    /\ ~destroyed
    /\ stop_event' = TRUE
    /\ destroyed' = TRUE
    /\ afterQueue' = <<>>
    /\ event' = <<"on_close", "">>
    /\ UNCHANGED <<tasks, goals, busy_slots, generated_blocks, reminder_thread,
                   start_enabled, available, threads, clock, popups, fired, schedule,
                   parsed, args, result>>

----------------------------------------------------------------------------
(* The reminder thread, _reminder_loop, one step per access to shared state *)

Foreground == <<tasks, goals, busy_slots, generated_blocks, reminder_thread, stop_event,
                start_enabled, available, destroyed, clock, schedule, parsed, args, result>>

\* run() has returned, or an exception has left it
Finished(how) == [NoThread EXCEPT !.pc = how]

\* variant: the list handed over by start_reminders
LoopBlocksAtCall(t) == threads[t].atCall

\* the sequence the for statement of line 508 iterates
LoopBlocks(t) == generated_blocks

\* lines 504-517: the thread reads the clock and self.generated_blocks and
\* computes its entries
Setup(t) ==
    /\ threads[t].pc = "start"
    /\ LET blocks == LoopBlocks(t)
       IN IF SetupRaises(blocks)
          THEN threads' = [threads EXCEPT ![t] = Finished("crashed")]
          ELSE threads' = [threads EXCEPT ![t].pc = "check",
                                          ![t].now = clock,
                                          ![t].entries = BlocksByDatetime(clock, blocks),
                                          ![t].shown = {}]
    /\ event' = <<"_reminder_loop", "">>
    /\ UNCHANGED <<afterQueue, fired, popups>>
    /\ UNCHANGED Foreground

\* variant: while True
KeepRunningForever == TRUE

\* not self.stop_event.is_set()
KeepRunning == ~stop_event

\* lines 518-519: the loop condition, then current = datetime.now()
Check(t) ==
    /\ threads[t].pc = "check"
    /\ IF KeepRunning
       THEN threads' = [threads EXCEPT ![t].pc = "scan", ![t].current = clock, ![t].idx = 1]
       ELSE threads' = [threads EXCEPT ![t] = Finished("done")]
    /\ event' = <<"_reminder_loop", "">>
    /\ UNCHANGED <<afterQueue, fired, popups>>
    /\ UNCHANGED Foreground

\* the entries from idx on that the for loop of lines 520-525 dispatches
Due(th, i) ==
    /\ i \in th.idx..Len(th.entries)
    /\ InWindow(th.entries[i][1], th.current)
    /\ NotShown(Identifier(th.entries[i][2]), th.shown)

\* variant: self._show_reminder(block) called from the thread itself
DispatchDirect(t, i) ==
    LET block == threads[t].entries[i][2]
    IN /\ popups' = Append(popups, <<"thread", block>>)
       /\ fired' = Append(fired, <<t, block>>)
       /\ threads' = [threads EXCEPT ![t].shown = @ \cup {Identifier(block)},
                                     ![t].idx = i + 1]
       /\ UNCHANGED afterQueue

\* variant: the callback is queued whether or not the root still exists
DispatchUnchecked(t, i) ==
    LET block == threads[t].entries[i][2]
    IN /\ afterQueue' = Append(afterQueue, block)
       /\ fired' = Append(fired, <<t, block>>)
       /\ threads' = [threads EXCEPT ![t].shown = @ \cup {Identifier(block)},
                                     ![t].idx = i + 1]
       /\ UNCHANGED popups

\* line 524: self.after(0, self._show_reminder, block) queues the callback
\* for the main loop; on a destroyed root the call raises
Dispatch(t, i) ==
    LET block == threads[t].entries[i][2]
    IN IF destroyed
       THEN /\ threads' = [threads EXCEPT ![t] = Finished("crashed")]
            /\ UNCHANGED <<afterQueue, fired, popups>>
       ELSE /\ afterQueue' = Append(afterQueue, block)
            /\ fired' = Append(fired, <<t, block>>)
            /\ threads' = [threads EXCEPT ![t].shown = @ \cup {Identifier(block)},
                                          ![t].idx = i + 1]
            /\ UNCHANGED popups

\* lines 520-526: the for loop up to its next dispatch, or, past the last
\* entry, time.sleep(30)
Scan(t) ==
    /\ threads[t].pc = "scan"
    /\ LET th == threads[t]
           due == {i \in 1..Len(th.entries) : Due(th, i)}
       IN IF due = {}
          THEN /\ threads' = [threads EXCEPT ![t].pc = "sleep", ![t].idx = 0,
                                             ![t].current = 0,
                                             ![t].wakeAt = clock + PollInterval]
               /\ UNCHANGED <<afterQueue, fired, popups>>
          ELSE Dispatch(t, CHOOSE i \in due : \A j \in due : i <= j)
    /\ event' = <<"_reminder_loop", "">>
    /\ UNCHANGED Foreground

\* time.sleep(30) returns
Wake(t) ==
    /\ threads[t].pc = "sleep"
    /\ clock >= threads[t].wakeAt
    /\ threads' = [threads EXCEPT ![t].pc = "check", ![t].wakeAt = 0]
    /\ event' = <<"_reminder_loop", "">>
    /\ UNCHANGED <<afterQueue, fired, popups>>
    /\ UNCHANGED Foreground

Worker(t) == Setup(t) \/ Check(t) \/ Scan(t) \/ Wake(t)

----------------------------------------------------------------------------
(* Time *)

\* granularity of the modelled clock, in seconds
ClockStep == PollInterval

Sunday235930 == 6 * DAY + 23 * HOUR + 59 * MINUTE + 30

\* the instants at which the application may be constructed
StartInstants == {Sunday235930}

StepsTaken ==
    CHOOSE k \in 0..(MaxClockSteps + 2) : (clock - k * ClockStep) \in StartInstants

\* a stopped thread still asleep is always allowed to reach its wake-up time
Advance ==
    /\ \/ StepsTaken < MaxClockSteps
       \/ /\ stop_event
          /\ \E t \in ThreadIds : threads[t].pc = "sleep" /\ threads[t].wakeAt > clock
    /\ clock' = clock + ClockStep
    /\ event' = <<"clock", "">>
    /\ UNCHANGED <<tasks, goals, busy_slots, generated_blocks, reminder_thread, stop_event,
                   start_enabled, available, destroyed, threads, afterQueue, popups, fired,
                   schedule, parsed, args, result>>

----------------------------------------------------------------------------
(* Inputs *)

t0000 == <<0, 0, Colon, 0, 0>>
t0030 == <<0, 0, Colon, 3, 0>>
t0100 == <<0, 1, Colon, 0, 0>>
t2500 == <<2, 5, Colon, 0, 0>>
t2600 == <<2, 6, Colon, 0, 0>>

Entry(title, start, end, details) ==
    [title |-> title, start |-> start, end |-> end, details |-> details]

\* responses of the scheduling service: one block; two blocks with one
\* identity and a third due at the same instant; a start time that is no
\* time of day; no block at all
Schedules ==
    { [days |-> << <<"Monday", <<Entry("A", t0000, t0100, "d")>> >> >>],
      [days |-> << <<"Monday", <<Entry("A", t0000, t0100, "d"),
                                 Entry("A", t0000, t0030, "e"),
                                 Entry("B", t0000, t0100, "d")>> >> >>],
      [days |-> << <<"Monday", <<Entry("X", t2500, t2600, "d")>> >> >>],
      [days |-> <<>>] }

Replies ==
    {[raises |-> FALSE, schedule |-> sch] : sch \in Schedules}
    \cup {[raises |-> TRUE, schedule |-> [days |-> <<>>]]}

\* the cells of the availability grid that are clicked
ToggleSlots == {<<"Monday", 0>>, <<"Monday", 23>>, <<"Sunday", 23>>}

GoalNames == {"", "Launch"}

TaskNames == {"Write"}
TaskDurations == {"abc", "2"}

----------------------------------------------------------------------------
(* The application *)

Init ==
    /\ tasks = <<>>
    /\ goals = <<>>
    /\ busy_slots = [day \in {WEEKDAYS[i] : i \in 1..7} |-> <<>>]
    /\ generated_blocks = <<>>
    /\ reminder_thread = 0
    /\ stop_event = FALSE
    /\ start_enabled = FALSE
    /\ available \in BOOLEAN
    /\ destroyed = FALSE
    /\ threads = [t \in ThreadIds |-> NoThread]
    /\ clock \in StartInstants
    /\ afterQueue = <<>>
    /\ popups = <<>>
    /\ fired = <<>>
    /\ event = <<"__init__", "">>
    /\ schedule = [days |-> <<>>]
    /\ parsed = <<>>
    /\ args = <<>>
    /\ result = <<>>

Next ==
    \/ \E n \in TaskNames, d \in TaskDurations : add_task(n, d, "Medium", "", "")
    \/ \E reply \in Replies : generate_schedule(reply)
    \/ start_reminders
    \/ _show_reminder
    \/ on_close
    \/ \E t \in ThreadIds : Worker(t)
    \/ Advance

Spec == Init /\ [][Next]_vars

\* the planning side alone: the grid, the two forms and the generation
NextPlan ==
    \/ \E sl \in ToggleSlots : toggle_busy(sl[1], sl[2])
    \/ \E n \in TaskNames \cup {"", " "}, d \in TaskDurations \cup {"", "-1"},
          g \in {"", "None", "Launch"} : add_task(n, d, "Medium", g, "")
    \/ \E n \in GoalNames : add_goal(n, "Medium", "")
    \/ \E reply \in Replies : generate_schedule(reply)

SpecPlan == Init /\ [][NextPlan]_vars

\* the session from the moment a first schedule has been generated
InitLive ==
    /\ tasks = <<Task("Write", 20, "Medium", "", None)>>
    /\ goals = <<>>
    /\ busy_slots = [day \in {WEEKDAYS[i] : i \in 1..7} |-> <<>>]
    /\ generated_blocks \in {_parse_schedule(sch) : sch \in Schedules}
    /\ reminder_thread = 0
    /\ stop_event = FALSE
    /\ start_enabled = TRUE
    /\ available = TRUE
    /\ destroyed = FALSE
    /\ threads = [t \in ThreadIds |-> NoThread]
    /\ clock \in StartInstants
    /\ afterQueue = <<>>
    /\ popups = <<>>
    /\ fired = <<>>
    /\ event = <<"generate_schedule", "">>
    /\ schedule = [days |-> <<>>]
    /\ parsed = <<>>
    /\ args = <<>>
    /\ result = <<>>

NextLive ==
    \/ \E reply \in Replies : generate_schedule(reply)
    \/ start_reminders
    \/ _show_reminder
    \/ on_close
    \/ \E t \in ThreadIds : Worker(t)
    \/ Advance

\* threads are scheduled and time passes
FairSpec ==
    /\ InitLive
    /\ [][NextLive]_vars
    /\ \A t \in ThreadIds : WF_vars(Worker(t))
    /\ WF_vars(Advance)

----------------------------------------------------------------------------
(* Properties of the reminder session *)

Alive == {t \in ThreadIds : is_alive(threads[t])}

SessionUntouched == UNCHANGED <<threads, stop_event, reminder_thread, fired, afterQueue>>

StartWhileAlive == event'[1] = "start_reminders" /\ Alive # {}

\* C1 as stated: at most one reminder thread is alive in every state, and
\* every start_reminders taken while a thread is alive reports "Reminders
\* running" and changes neither the threads nor the stop flag.
C1_StartWhileRunningReportsActive ==
    /\ [](Cardinality(Alive) <= 1)
    /\ [][StartWhileAlive =>
              (event'[2] = "Reminders running" /\ SessionUntouched)]_vars

\* C1 as amended: at most one reminder thread is alive in every state, and a
\* start_reminders taken while a thread is alive creates no thread and leaves
\* the threads and the stop flag as they were; it reports "Reminders
\* running" when the generated sequence is non-empty and "No schedule" when
\* it is empty.
C1_StartWhileRunningIsNoOp ==
    /\ [](Cardinality(Alive) <= 1)
    /\ [][StartWhileAlive =>
              /\ SessionUntouched
              /\ event'[2] = (IF Len(generated_blocks) = 0 THEN "No schedule"
                              ELSE "Reminders running")]_vars

C1_Witness ==
    /\ event = <<"start_reminders", "Reminders running">>
    /\ \E t \in Alive : threads[t].pc \in {"check", "scan", "sleep"}

Polling == {t \in ThreadIds : threads[t].pc \in {"check", "scan", "sleep"}}

\* C2: the entries a reminder thread polls are the ones computed from the
\* generated sequence as it was when start_reminders was invoked.
C2_WorkerPollsSequenceOfStart ==
    \A t \in Polling :
        /\ ~SetupRaises(threads[t].atCall)
        /\ threads[t].entries = BlocksByDatetime(threads[t].now, threads[t].atCall)

\* C3: within one run of the loop no identity (weekday, start time, title)
\* is dispatched twice.
C3_IdentityDispatchedAtMostOnce ==
    \A i, j \in 1..Len(fired) :
        (i < j /\ fired[i][1] = fired[j][1])
            => Identifier(fired[i][2]) # Identifier(fired[j][2])

\* a later tick inside the window of an identity that has already fired
C3_Witness ==
    \E t \in ThreadIds :
        /\ threads[t].pc = "scan"
        /\ \E i \in 1..Len(threads[t].entries) :
               /\ InWindow(threads[t].entries[i][1], threads[t].current)
               /\ threads[t].current > threads[t].entries[i][1]
               /\ Identifier(threads[t].entries[i][2]) \in threads[t].shown
               /\ \E k \in 1..Len(fired) :
                      fired[k] = <<t, threads[t].entries[i][2]>>

GenerationFailed ==
    /\ event'[1] = "generate_schedule"
    /\ event'[2] \in {"No tasks", "OpenAI unavailable", "Scheduling failed"}

\* C6: a generate_schedule that fails for lack of tasks, for lack of a client
\* or because the client raises leaves the generated sequence, the threads
\* with their entries, and the stop flag as they were.
C6_FailedGenerationChangesNothing ==
    [][GenerationFailed =>
           UNCHANGED <<generated_blocks, threads, stop_event, reminder_thread>>]_vars

C6_Witness ==
    /\ event = <<"generate_schedule", "Scheduling failed">>
    /\ Len(generated_blocks) > 0
    /\ \E t \in Polling : Len(threads[t].entries) > 0

FiredBy(t, log) == {k \in 1..Len(log) : log[k][1] = t}

\* C7: once the stop flag is set every reminder thread eventually ends; a
\* thread that checks the flag while it is set ends at that check; and a
\* thread that has ended dispatches nothing more.
C7_StopEndsTheWorker ==
    /\ stop_event ~> (Alive = {})
    /\ [][\A t \in ThreadIds :
              /\ (stop_event /\ threads[t].pc = "check" /\ threads'[t] # threads[t])
                     => threads'[t].pc = "done"
              /\ threads[t].pc = "done"
                     => (threads'[t].pc = "done" /\ FiredBy(t, fired') = FiredBy(t, fired))]_vars

C7_Witness ==
    /\ stop_event
    /\ \E t \in ThreadIds : threads[t].pc = "done"
    /\ Len(fired) > 0

Blocks(log) == [k \in 1..Len(log) |-> log[k][2]]

\* C8: every presentation is executed by the foreground, and the blocks are
\* presented in the order in which the thread queued them.
C8_PresentationOnForegroundInOrder ==
    /\ \A k \in 1..Len(popups) : popups[k][1] = "foreground"
    /\ Len(popups) <= Len(fired)
    /\ Blocks(popups) = SubSeq(Blocks(fired), 1, Len(popups))
    /\ ~destroyed => Blocks(popups) \o afterQueue = Blocks(fired)

C8_Witness ==
    /\ Len(popups) >= 2
    /\ popups[1][2] # popups[2][2]

----------------------------------------------------------------------------
(* The parser on its own: _parse_schedule applied to one raw response *)

t0800 == <<0, 8, Colon, 0, 0>>
t0900 == <<0, 9, Colon, 0, 0>>
t1000 == <<1, 0, Colon, 0, 0>>
t1400 == <<1, 4, Colon, 0, 0>>
t1500 == <<1, 5, Colon, 0, 0>>
\* "9:00"
t900 == <<9, Colon, 0, 0>>

\* entries of a response: complete ones, ones that lack a key, and ones
\* whose times are no times of day, are unpadded or run backwards
EntryPool ==
    { Entry("A", t0800, t0900, "d"),
      Entry("B", t1400, t1500, "d"),
      [title |-> "C", start |-> t0900, end |-> t1000],
      [title |-> "N", end |-> t0900, details |-> "d"],
      [title |-> "N", start |-> t0800, details |-> "d"],
      [start |-> t0800, end |-> t0900],
      Entry("X", t2500, t2600, "d"),
      Entry("Y", t900, t0800, "d") }

EntryLists(n) == UNION {[1..k -> EntryPool] : k \in 0..n}

DayKeys == {"Monday", "Wednesday", "Funday"}

ParseInputs ==
    {[title |-> "no days"]}
    \cup {[days |-> << <<k, l>> >>] : k \in DayKeys, l \in EntryLists(MaxEntries)}
    \cup {[days |-> << <<k[1], l1>>, <<k[2], l2>> >>] :
              k \in {kk \in DayKeys \X DayKeys : kk[1] # kk[2]},
              l1 \in EntryLists(1), l2 \in EntryLists(2)}

InitParse ==
    /\ tasks = <<>>
    /\ goals = <<>>
    /\ busy_slots = [day \in {WEEKDAYS[i] : i \in 1..7} |-> <<>>]
    /\ generated_blocks = <<>>
    /\ reminder_thread = 0
    /\ stop_event = FALSE
    /\ start_enabled = FALSE
    /\ available = TRUE
    /\ destroyed = FALSE
    /\ threads = [t \in ThreadIds |-> NoThread]
    /\ clock \in StartInstants
    /\ afterQueue = <<>>
    /\ popups = <<>>
    /\ fired = <<>>
    /\ event = <<"__init__", "">>
    /\ schedule \in ParseInputs
    /\ parsed = <<>>
    /\ args = <<>>
    /\ result = <<>>

ParseCall ==
    /\ event[1] = "__init__"
    /\ parsed' = _parse_schedule(schedule)
    /\ event' = <<"_parse_schedule", "">>
    /\ UNCHANGED <<tasks, goals, busy_slots, generated_blocks, reminder_thread, stop_event,
                   start_enabled, available, destroyed, threads, clock, afterQueue, popups,
                   fired, schedule, args, result>>

NextParse == ParseCall

SpecParse == InitParse /\ [][NextParse]_vars

Returned == event[1] = "_parse_schedule"

\* a zero-padded HH:MM time of day
WellFormedTime(s) ==
    /\ Len(s) = 5
    /\ IsDigit(s[1]) /\ IsDigit(s[2]) /\ s[3] = Colon /\ IsDigit(s[4]) /\ IsDigit(s[5])
    /\ 10 * s[1] + s[2] <= 23
    /\ 10 * s[4] + s[5] <= 59

MinuteOfDay(s) == 60 * (10 * s[1] + s[2]) + 10 * s[4] + s[5]

\* C9: every block the parser returns has well-formed HH:MM start and end
\* times with start < end.
C9_ParsedBlocksAreValidated ==
    Returned =>
        \A i \in 1..Len(parsed) :
            /\ WellFormedTime(parsed[i].start_time)
            /\ WellFormedTime(parsed[i].end_time)
            /\ MinuteOfDay(parsed[i].start_time) < MinuteOfDay(parsed[i].end_time)

CanonicalDays == {"Monday", "Tuesday", "Wednesday", "Thursday", "Friday", "Saturday", "Sunday"}

\* the positions <<d, k>> of the entries the claim says are kept
KeptPositions ==
    IF "days" \notin DOMAIN schedule THEN {}
    ELSE {pos \in (1..Len(schedule.days)) \X (1..MaxEntries + 1) :
              /\ schedule.days[pos[1]][1] \in CanonicalDays
              /\ pos[2] <= Len(schedule.days[pos[1]][2])
              /\ LET e == schedule.days[pos[1]][2][pos[2]]
                 IN "title" \in DOMAIN e /\ "start" \in DOMAIN e /\ "end" \in DOMAIN e}

BlockAt(pos) ==
    LET e == schedule.days[pos[1]][2][pos[2]]
    IN [title |-> e.title, day |-> schedule.days[pos[1]][1], start_time |-> e.start,
        end_time |-> e.end,
        details |-> IF "details" \in DOMAIN e THEN e.details ELSE ""]

\* C10: the parser returns, as a multiset, exactly the entries that sit
\* under a canonical weekday key and have title, start and end, each as a
\* block of that weekday whose details are the entry's, or "" without them.
C10_ParserKeepsExactlyCompleteEntries ==
    Returned =>
        /\ Len(parsed) = Cardinality(KeptPositions)
        /\ \A pos \in KeptPositions :
               Cardinality({i \in 1..Len(parsed) : parsed[i] = BlockAt(pos)})
                   = Cardinality({q \in KeptPositions : BlockAt(q) = BlockAt(pos)})

\* an incomplete entry between two complete ones, one of them without details
C10_Witness ==
    /\ Returned
    /\ "days" \in DOMAIN schedule
    /\ Len(schedule.days) = 1
    /\ Len(schedule.days[1][2]) = 3
    /\ KeptPositions = {<<1, 1>>, <<1, 3>>}
    /\ \E i \in 1..Len(parsed) : parsed[i].details = "" /\ parsed[i].title = "C"
    /\ Len(parsed) = 2

\* the time of day a start time denotes, for the strings strptime and int()
\* both read as one
DenotesTime(s) == StrptimeOK(s)

\* C11: for any two consecutive blocks of the parser's output, the first is
\* on an earlier weekday, or both are on the same weekday and the first's
\* start time of day is not later than the second's.
C11_OutputIsTimeOrdered ==
    Returned =>
        \A i \in 1..(Len(parsed) - 1) :
            \/ WeekdayIndex(parsed[i].day) < WeekdayIndex(parsed[i + 1].day)
            \/ /\ parsed[i].day = parsed[i + 1].day
               /\ (DenotesTime(parsed[i].start_time) /\ DenotesTime(parsed[i + 1].start_time))
                      => StrptimeMinutes(parsed[i].start_time)
                             <= StrptimeMinutes(parsed[i + 1].start_time)

----------------------------------------------------------------------------
(* The fire-time computation on its own: a thread just started, at any     *)
(* time of the week                                                        *)

t0830 == <<0, 8, Colon, 3, 0>>
t2359 == <<2, 3, Colon, 5, 9>>
\* "9:05"
t905 == <<9, Colon, 0, 5>>

TimesOfDay ==
    {0, 1, 8 * HOUR + 30 * MINUTE - 1, 8 * HOUR + 30 * MINUTE, 8 * HOUR + 30 * MINUTE + 1,
     12 * HOUR, 23 * HOUR + 59 * MINUTE, 23 * HOUR + 59 * MINUTE + 59}

FireNows == {WEEK + d * DAY + tod : d \in 0..6, tod \in TimesOfDay}

\* one block on every weekday, all starting at the same time of day
WeekOf(start) == [i \in 1..7 |-> TimeBlock("A", WEEKDAYS[i], start, t2359, "d")]

FireSchedules == {WeekOf(t0000), WeekOf(t0830), WeekOf(t2359), WeekOf(t905)}

InitFire ==
    /\ tasks = <<Task("Write", 20, "Medium", "", None)>>
    /\ goals = <<>>
    /\ busy_slots = [day \in {WEEKDAYS[i] : i \in 1..7} |-> <<>>]
    /\ generated_blocks \in FireSchedules
    /\ reminder_thread = 1
    /\ stop_event = FALSE
    /\ start_enabled = FALSE
    /\ available = TRUE
    /\ destroyed = FALSE
    /\ threads = [t \in ThreadIds |->
                      IF t = 1 THEN NewThread(generated_blocks) ELSE NoThread]
    /\ clock \in FireNows
    /\ afterQueue = <<>>
    /\ popups = <<>>
    /\ fired = <<>>
    /\ event = <<"start_reminders", "Reminders started">>
    /\ schedule = [days |-> <<>>]
    /\ parsed = <<>>
    /\ args = <<>>
    /\ result = <<>>

NextFire == \E t \in ThreadIds : Setup(t)

SpecFire == InitFire /\ [][NextFire]_vars

\* Monday 00:00:00 of the week of now
WeekStart(now) == now - (now % WEEK)

\* the block's weekday and start time of day in the week of now
ThisWeek(now, block) ==
    LET p == Split(block.start_time)
    IN WeekStart(now) + WeekdayIndex(block.day) * DAY
           + DigitsValue(p[1]) * HOUR + DigitsValue(p[2]) * MINUTE

\* C4: the fire time of every entry is the block's weekday and start time in
\* the week of now, moved forward by one week exactly when that is earlier
\* than now.
C4_FireTimeIsThisWeekOrNext ==
    \A t \in Polling :
        /\ Len(threads[t].entries) = Len(threads[t].atCall)
        /\ \A i \in 1..Len(threads[t].entries) :
               LET now == threads[t].now
                   at == ThisWeek(now, threads[t].entries[i][2])
               IN threads[t].entries[i][1] = (IF at < now THEN at + WEEK ELSE at)

\* one entry moved to next week, one due exactly now and left in this week
C4_Witness ==
    \E t \in Polling :
        \E i, j \in 1..Len(threads[t].entries) :
            /\ threads[t].entries[i][1] = ThisWeek(threads[t].now, threads[t].entries[i][2]) + WEEK
            /\ threads[t].entries[j][1] = threads[t].now

\* C5: the fire time of every entry is not earlier than now and at most one
\* week after now.
C5_FireTimeWithinTheComingWeek ==
    \A t \in Polling :
        \A i \in 1..Len(threads[t].entries) :
            /\ threads[t].entries[i][1] >= threads[t].now
            /\ threads[t].entries[i][1] <= threads[t].now + WEEK

\* Sunday late evening: Monday's block is due within the next minute
C5_Witness ==
    \E t \in Polling :
        /\ Weekday(threads[t].now) = 6
        /\ threads[t].now % DAY >= 23 * HOUR
        /\ \E i \in 1..Len(threads[t].entries) :
               /\ threads[t].entries[i][2].day = "Monday"
               /\ threads[t].entries[i][1] > threads[t].now
               /\ threads[t].entries[i][1] <= threads[t].now + MINUTE

----------------------------------------------------------------------------
(* TimeBlock.overlaps on its own: one call on two blocks                   *)

\* the application as constructed, before any handler has run
Fresh ==
    /\ tasks = <<>>
    /\ goals = <<>>
    /\ busy_slots = [day \in {WEEKDAYS[i] : i \in 1..7} |-> <<>>]
    /\ generated_blocks = <<>>
    /\ reminder_thread = 0
    /\ stop_event = FALSE
    /\ start_enabled = FALSE
    /\ available = TRUE
    /\ destroyed = FALSE
    /\ threads = [t \in ThreadIds |-> NoThread]
    /\ clock \in StartInstants
    /\ afterQueue = <<>>
    /\ popups = <<>>
    /\ fired = <<>>
    /\ event = <<"__init__", "">>
    /\ schedule = [days |-> <<>>]
    /\ parsed = <<>>

Program == <<tasks, goals, busy_slots, generated_blocks, reminder_thread, stop_event,
             start_enabled, available, destroyed, threads, clock, afterQueue, popups,
             fired, schedule, parsed>>

\* a call that returned value, and one that raised exception
Returns(value) == [raised |-> FALSE, value |-> value]
Raises(exception) == [raised |-> TRUE, value |-> exception]

\* start and end strings of the blocks: padded, unpadded ("9:00") and one
\* that is no time of day
OverlapTimes == {t0800, t0900, t900, t1000, t1400, t2500}

OverlapBlocks ==
    {TimeBlock("A", d, s, e, "") : d \in {"Monday", "Tuesday"},
                                   s \in OverlapTimes, e \in OverlapTimes}

InitOverlap ==
    /\ Fresh
    /\ args \in OverlapBlocks \X OverlapBlocks
    /\ result = <<>>

OverlapsCall ==
    /\ event[1] = "__init__"
    /\ result' = IF OverlapsRaises(args[1], args[2]) THEN Raises("ValueError")
                 ELSE Returns(overlaps(args[1], args[2]))
    /\ event' = <<"overlaps", "">>
    /\ UNCHANGED <<Program, args>>

NextOverlap == OverlapsCall

SpecOverlap == InitOverlap /\ [][NextOverlap]_vars

\* a block whose start and end are times of day with start < end
ProperInterval(b) ==
    /\ DenotesTime(b.start_time)
    /\ DenotesTime(b.end_time)
    /\ StrptimeMinutes(b.start_time) < StrptimeMinutes(b.end_time)

\* the two intervals share some instant of the same weekday
Intersect(a, b) ==
    /\ a.day = b.day
    /\ StrptimeMinutes(a.start_time) < StrptimeMinutes(b.end_time)
    /\ StrptimeMinutes(b.start_time) < StrptimeMinutes(a.end_time)

\* C12: for blocks A and B with start < end, overlaps(A, B) returns true
\* exactly when they are on the same weekday with start_A < end_B and
\* start_B < end_A; it equals overlaps(B, A), is false for different
\* weekdays, and is false when A ends at the time B starts.
C12_OverlapsIsStrictIntersection ==
    (event[1] = "overlaps" /\ ProperInterval(args[1]) /\ ProperInterval(args[2])) =>
        /\ ~result.raised
        /\ result.value = Intersect(args[1], args[2])
        /\ ~OverlapsRaises(args[2], args[1])
        /\ result.value = overlaps(args[2], args[1])
        /\ args[1].day # args[2].day => result.value = FALSE
        /\ StrptimeMinutes(args[1].end_time) = StrptimeMinutes(args[2].start_time)
               => result.value = FALSE

\* Monday 08:00-09:00 against Monday 9:00-10:00: the blocks touch
C12_Witness ==
    /\ event[1] = "overlaps"
    /\ args[1] = TimeBlock("A", "Monday", t0800, t0900, "")
    /\ args[2] = TimeBlock("A", "Monday", t900, t1000, "")
    /\ result = Returns(FALSE)

----------------------------------------------------------------------------
(* _find_conflicts on its own: one call on a sequence of blocks, with a    *)
(* busy model that toggles can produce                                     *)

\* longest sequence of generated blocks handed to _find_conflicts
MaxBlocks == 2

\* a block over two busy hours, an unpadded one, one that starts where a
\* busy hour ends, one on another weekday, and one whose times are no times
ConflictBlocks ==
    { TimeBlock("P", "Monday", t0800, t1000, ""),
      TimeBlock("Q", "Monday", t900, t1000, ""),
      TimeBlock("R", "Monday", t1000, t1400, ""),
      TimeBlock("S", "Tuesday", t0800, t0900, ""),
      TimeBlock("X", "Monday", t2500, t2600, "") }

BlockLists == UNION {[1..k -> ConflictBlocks] : k \in 0..MaxBlocks}

\* self.busy_slots after some toggles: hours 8 and 9 of Monday in either
\* order of clicking, the last hour of Tuesday
BusyModels ==
    {[day \in {WEEKDAYS[i] : i \in 1..7} |->
          IF day = "Monday" THEN mon ELSE IF day = "Tuesday" THEN tue ELSE <<>>] :
     mon \in {<<>>, << <<8, 1>> >>, << <<9, 1>> >>, << <<8, 1>>, <<9, 1>> >>,
              << <<9, 1>>, <<8, 1>> >>},
     tue \in {<<>>, << <<23, 1>> >>}}

InitConflicts ==
    /\ tasks = <<>>
    /\ goals = <<>>
    /\ busy_slots \in BusyModels
    /\ generated_blocks = <<>>
    /\ reminder_thread = 0
    /\ stop_event = FALSE
    /\ start_enabled = FALSE
    /\ available = TRUE
    /\ destroyed = FALSE
    /\ threads = [t \in ThreadIds |-> NoThread]
    /\ clock \in StartInstants
    /\ afterQueue = <<>>
    /\ popups = <<>>
    /\ fired = <<>>
    /\ event = <<"__init__", "">>
    /\ schedule = [days |-> <<>>]
    /\ parsed = <<>>
    /\ args \in BlockLists
    /\ result = <<>>

FindConflictsCall ==
    /\ event[1] = "__init__"
    /\ result' = IF FindConflictsRaises(args, busy_slots) THEN Raises("ValueError")
                 ELSE Returns(_find_conflicts(args, busy_slots))
    /\ event' = <<"_find_conflicts", "">>
    /\ UNCHANGED <<Program, args>>

NextConflicts == FindConflictsCall

SpecConflicts == InitConflicts /\ [][NextConflicts]_vars

\* the stored slots <<hour, duration>> of the block's weekday whose hours
\* [hour, hour + duration) share some instant with the block
SlotsHit(block) ==
    {k \in 1..Len(busy_slots[block.day]) :
         LET sl == busy_slots[block.day][k]
         IN /\ StrptimeMinutes(block.start_time) < 60 * (sl[1] + sl[2])
            /\ 60 * sl[1] < StrptimeMinutes(block.end_time)}

\* the number of overlapping pairs among the first n blocks
RECURSIVE PairsUpTo(_)
PairsUpTo(n) ==
    IF n = 0 THEN 0 ELSE PairsUpTo(n - 1) + Cardinality(SlotsHit(args[n]))

----------------------------------------------------------------------------
(* Properties of the planning side *)

HoursOf(busy_list) == {busy_list[i][1] : i \in 1..Len(busy_list)}

SlotSet(busy_list) == {busy_list[i] : i \in 1..Len(busy_list)}

OtherHours(busy_list, hour) == SelectSeq(busy_list, LAMBDA sl : sl[1] # hour)

\* what the claim says one toggle(d, h) does to the busy model
ToggleEffect(d, h) ==
    /\ \A e \in CanonicalDays \ {d} : busy_slots'[e] = busy_slots[e]
    /\ OtherHours(busy_slots'[d], h) = OtherHours(busy_slots[d], h)
    /\ IF h \in HoursOf(busy_slots[d])
       THEN h \notin HoursOf(busy_slots'[d])
       ELSE /\ <<h, 1>> \in SlotSet(busy_slots'[d])
            /\ Len(busy_slots'[d]) = Len(busy_slots[d]) + 1

\* C14: every weekday holds at most one busy slot per hour; a toggle(d, h)
\* adds the one-hour slot at h when d has none and removes it when it has
\* one, and leaves the other weekdays and the other hours of d as they
\* were; two toggles of the same cell give back the same set of slots.
C14_ToggleIsAnInvolutionPerCell ==
    /\ [](\A d \in CanonicalDays :
              /\ Cardinality(HoursOf(busy_slots[d])) = Len(busy_slots[d])
              /\ \A sl \in ToggleSlots :
                     SlotSet(Toggled(Toggled(busy_slots[sl[1]], sl[2]), sl[2]))
                         = SlotSet(busy_slots[sl[1]]))
    /\ [][event'[1] = "toggle_busy" =>
              \E sl \in ToggleSlots : ToggleEffect(sl[1], sl[2])]_vars

\* a click has just emptied the grid again: a cell was set and then cleared
C14_Witness ==
    /\ event[1] = "toggle_busy"
    /\ \A d \in CanonicalDays : busy_slots[d] = <<>>

----------------------------------------------------------------------------
(* _build_schedule_context on its own: one call, with task and goal lists  *)
(* that the two forms can produce                                          *)

\* the dict appended to tasks_by_goal
TaskDict(task) ==
    [name |-> task.name, duration_hours |-> task.duration_hours,
     difficulty |-> task.difficulty, notes |-> task.notes]

\* key = task.goal if task.goal else "Unaligned"
TaskKey(task) == IF task.goal # None /\ task.goal # "" THEN task.goal ELSE "Unaligned"

\* tasks_by_goal.get(key, []) once the loop over the first n tasks has run
RECURSIVE TasksByGoal(_, _)
TasksByGoal(key, n) ==
    IF n = 0 THEN <<>>
    ELSE TasksByGoal(key, n - 1)
         \o (IF TaskKey(tasks[n]) = key THEN <<TaskDict(tasks[n])>> ELSE <<>>)

\* goal_lookup.items(): a name keeps the position of its first goal and the
\* value of its last
RECURSIVE GoalLookup(_)
GoalLookup(n) ==
    IF n = 0 THEN <<>>
    ELSE LET before == GoalLookup(n - 1)
             g == goals[n]
         IN IF \E k \in 1..Len(before) : before[k].name = g.name
            THEN [k \in 1..Len(before) |-> IF before[k].name = g.name THEN g ELSE before[k]]
            ELSE Append(before, g)

GoalSummaries ==
    LET lookup == GoalLookup(Len(goals))
    IN [k \in 1..Len(lookup) |->
            [goal |-> lookup[k].name, difficulty |-> lookup[k].difficulty,
             notes |-> lookup[k].notes, tasks |-> TasksByGoal(lookup[k].name, Len(tasks))]]
       \o (IF \E n \in 1..Len(tasks) : TaskKey(tasks[n]) = "Unaligned"
           THEN <<[goal |-> "Unaligned", difficulty |-> "", notes |-> "",
                   tasks |-> TasksByGoal("Unaligned", Len(tasks))]>>
           ELSE <<>>)

\* the guidelines are three fixed strings
_build_schedule_context ==
    [goals |-> goals, tasks |-> tasks, busy |-> _build_busy_context(busy_slots),
     goal_focus |-> GoalSummaries, guidelines |-> "guidelines"]

\* longest task list and goal list the context is built from
MaxContextTasks == 3
MaxContextGoals == 2

\* tasks as add_task stores them: without a goal, with the name of a goal
\* that exists in some of the goal lists, with a name that no goal has
ContextTasks ==
    {Task(n, 20, "Medium", "", g) : n \in {"Write", "Read"}, g \in {None, "Launch", "Ghost"}}

ContextGoals == {Goal(n, "Medium", "") : n \in {"Launch", "Ship"}}

InitContext ==
    /\ tasks \in UNION {[1..k -> ContextTasks] : k \in 0..MaxContextTasks}
    /\ goals \in UNION {[1..k -> ContextGoals] : k \in 0..MaxContextGoals}
    /\ busy_slots = [day \in {WEEKDAYS[i] : i \in 1..7} |-> <<>>]
    /\ generated_blocks = <<>>
    /\ reminder_thread = 0
    /\ stop_event = FALSE
    /\ start_enabled = FALSE
    /\ available = TRUE
    /\ destroyed = FALSE
    /\ threads = [t \in ThreadIds |-> NoThread]
    /\ clock \in StartInstants
    /\ afterQueue = <<>>
    /\ popups = <<>>
    /\ fired = <<>>
    /\ event = <<"__init__", "">>
    /\ schedule = [days |-> <<>>]
    /\ parsed = <<>>
    /\ args = <<>>
    /\ result = <<>>

BuildContextCall ==
    /\ event[1] = "__init__"
    /\ result' = Returns(_build_schedule_context)
    /\ event' = <<"_build_schedule_context", "">>
    /\ UNCHANGED <<Program, args>>

NextContext == BuildContextCall

SpecContext == InitContext /\ [][NextContext]_vars

GoalNamesOf == {goals[k].name : k \in 1..Len(goals)}

\* the tasks the claim puts under 'Unaligned'
IsUnaligned(task) == task.goal = None \/ task.goal \notin GoalNamesOf

\* the tasks, in list order, that satisfy Test
TasksWhere(Test(_)) ==
    LET kept == SelectSeq(tasks, Test)
    IN [k \in 1..Len(kept) |->
            [name |-> kept[k].name, duration_hours |-> kept[k].duration_hours,
             difficulty |-> kept[k].difficulty, notes |-> kept[k].notes]]

RECURSIVE TasksListed(_)
TasksListed(focus) ==
    IF Len(focus) = 0 THEN 0 ELSE Len(focus[1].tasks) + TasksListed(Tail(focus))

\* C15: the goal_focus of the built context has exactly one entry per name
\* of an existing goal, holding exactly the tasks that reference that name,
\* plus an 'Unaligned' entry exactly when some task has no goal reference or
\* references a name no goal has, holding exactly those tasks; so every
\* task is listed in exactly one entry.
C15_GoalFocusPartitionsTheTasks ==
    event[1] = "_build_schedule_context" =>
        LET focus == result.value.goal_focus
            EntriesOf(name) == {k \in 1..Len(focus) : focus[k].goal = name}
        IN /\ \A name \in GoalNamesOf :
                  /\ Cardinality(EntriesOf(name)) = 1
                  /\ \A k \in EntriesOf(name) :
                         focus[k].tasks = TasksWhere(LAMBDA t : t.goal = name)
           /\ (EntriesOf("Unaligned") # {}) <=> (\E n \in 1..Len(tasks) : IsUnaligned(tasks[n]))
           /\ Cardinality(EntriesOf("Unaligned")) <= 1
           /\ \A k \in EntriesOf("Unaligned") : focus[k].tasks = TasksWhere(IsUnaligned)
           /\ \A k \in 1..Len(focus) : focus[k].goal \in GoalNamesOf \cup {"Unaligned"}
           /\ TasksListed(focus) = Len(tasks)

\* C16: every task of the task list has a non-empty name and a positive
\* duration, and an add_task that reports missing information or an
\* invalid duration leaves the task list, the goal list and the busy model
\* as they were.
C16_TasksAreValidated ==
    /\ [](\A i \in 1..Len(tasks) : tasks[i].name # "" /\ tasks[i].duration_hours > 0)
    /\ [][(event'[1] = "add_task" /\ event'[2] \in {"Missing information", "Invalid duration"})
              => UNCHANGED <<tasks, goals, busy_slots>>]_vars

----------------------------------------------------------------------------
(* The reminder session with punctual ticks: a thread's steps take no time *)
(* and time.sleep(30) returns after exactly 30 seconds                     *)

Sunday235945 == Sunday235930 + 15

\* the session starts on a tick that will hit the start of Monday exactly,
\* or on one that will fall 15 and 45 seconds into Monday's first minute
TickInstants == {Sunday235930, Sunday235945}

InitTick ==
    /\ tasks = <<Task("Write", 20, "Medium", "", None)>>
    /\ goals = <<>>
    /\ busy_slots = [day \in {WEEKDAYS[i] : i \in 1..7} |-> <<>>]
    /\ generated_blocks \in {_parse_schedule(sch) : sch \in Schedules}
    /\ reminder_thread = 0
    /\ stop_event = FALSE
    /\ start_enabled = TRUE
    /\ available = TRUE
    /\ destroyed = FALSE
    /\ threads = [t \in ThreadIds |-> NoThread]
    /\ clock \in TickInstants
    /\ afterQueue = <<>>
    /\ popups = <<>>
    /\ fired = <<>>
    /\ event = <<"generate_schedule", "">>
    /\ schedule = [days |-> <<>>]
    /\ parsed = <<>>
    /\ args = <<>>
    /\ result = <<>>

\* time passes only while every live thread sleeps, and never beyond the
\* moment a sleeping thread is due to wake
AdvancePunctual ==
    /\ (clock - Sunday235930) \div ClockStep < MaxClockSteps
    /\ \A t \in ThreadIds :
           /\ threads[t].pc \notin {"start", "check", "scan"}
           /\ threads[t].pc = "sleep" => clock + ClockStep <= threads[t].wakeAt
    /\ clock' = clock + ClockStep
    /\ event' = <<"clock", "">>
    /\ UNCHANGED <<tasks, goals, busy_slots, generated_blocks, reminder_thread, stop_event,
                   start_enabled, available, destroyed, threads, afterQueue, popups, fired,
                   schedule, parsed, args, result>>

NextTick ==
    \/ \E reply \in Replies : generate_schedule(reply)
    \/ start_reminders
    \/ _show_reminder
    \/ on_close
    \/ \E t \in ThreadIds : Worker(t)
    \/ AdvancePunctual

SpecTick == InitTick /\ [][NextTick]_vars

\* the threads that have completed a tick and sleep until the next one
Asleep == {t \in ThreadIds : threads[t].pc = "sleep"}

\* the time of the tick a sleeping thread has completed
LastTick(t) == threads[t].wakeAt - PollInterval

\* the entries of a sleeping thread whose fire time its ticks have reached
Reached(t) ==
    {i \in 1..Len(threads[t].entries) : threads[t].entries[i][1] <= LastTick(t)}

\* every dispatch is made on a tick inside the window of an entry of that block
DispatchInsideWindow ==
    fired' # fired =>
        LET made == fired'[Len(fired')]
            th == threads[made[1]]
        IN \E i \in 1..Len(th.entries) :
               th.entries[i][2] = made[2] /\ InWindow(th.entries[i][1], th.current)

\* C17 as stated: with ticks 30 seconds apart, once the ticks of a running
\* loop have reached an entry's fire time the block of that entry has been
\* dispatched, on a tick inside its window, exactly once; this holds for
\* every entry of the snapshot.
C17_EveryBlockNotifiedInItsWindow ==
    /\ [](\A t \in Asleep : \A i \in Reached(t) :
              Cardinality({k \in 1..Len(fired) :
                               fired[k] = <<t, threads[t].entries[i][2]>>}) = 1)
    /\ [][DispatchInsideWindow]_vars

\* the first entry of the snapshot with the identity of entry i
FirstOfIdentity(th, i) ==
    CHOOSE j \in 1..i :
        /\ Identifier(th.entries[j][2]) = Identifier(th.entries[i][2])
        /\ \A k \in 1..(j - 1) :
               Identifier(th.entries[k][2]) # Identifier(th.entries[i][2])

\* C17 as amended: with ticks 30 seconds apart, once the ticks of a running
\* loop have reached an entry's fire time exactly one block with that
\* entry's identity (weekday, start time, title) has been dispatched, on a
\* tick inside the window, and it is the block of the first entry of the
\* snapshot with that identity; entries of distinct identities that share a
\* fire time are each dispatched.
C17_EveryIdentityNotifiedInItsWindow ==
    /\ [](\A t \in Asleep : \A i \in Reached(t) :
              LET sent == {k \in 1..Len(fired) :
                               /\ fired[k][1] = t
                               /\ Identifier(fired[k][2]) = Identifier(threads[t].entries[i][2])}
              IN /\ Cardinality(sent) = 1
                 /\ \A k \in sent :
                        fired[k][2] = threads[t].entries[FirstOfIdentity(threads[t], i)][2])
    /\ [][DispatchInsideWindow]_vars

\* a thread whose ticks fall 15 and 45 seconds into the window has made its
\* second tick there: of A, a second A and B, all due at 00:00, A and B have
\* been dispatched once each
C17_Witness ==
    \E t \in Asleep :
        /\ Len(threads[t].entries) = 3
        /\ Reached(t) = {1, 2, 3}
        /\ LastTick(t) = threads[t].entries[1][1] + 45
        /\ Cardinality(FiredBy(t, fired)) = 2

----------------------------------------------------------------------------
(* Properties of the busy snapshot and of the threads' lifetime *)

\* C18: for every stored busy slot the snapshot holds an interval whose
\* start and end are valid HH:MM times of day with end = start + duration,
\* and conflict detection on blocks with well-formed times returns a list
\* of messages and raises nothing.
C18_BusySnapshotIsValidAndDetectionReturns ==
    event[1] = "_find_conflicts" =>
        /\ \A d \in CanonicalDays : \A k \in 1..Len(busy_slots[d]) :
               LET interval == _build_busy_context(busy_slots)[d][k]
               IN /\ WellFormedTime(interval.start)
                  /\ WellFormedTime(interval.end)
                  /\ MinuteOfDay(interval.end)
                         = MinuteOfDay(interval.start) + 60 * busy_slots[d][k][2]
        /\ (\A i \in 1..Len(args) :
                WellFormedTime(args[i].start_time) /\ WellFormedTime(args[i].end_time))
               => ~result.raised

\* C19: a reminder thread that start_reminders has started stays alive
\* until the stop flag is set: no step ends a thread, by return or by an
\* exception, while the flag is clear.
C19_WorkerRunsUntilStopped ==
    [][\A t \in ThreadIds :
           (is_alive(threads[t]) /\ ~is_alive(threads'[t])) => stop_event]_vars

====
